---------------------------- MODULE Spec2Model ----------------------------
(***************************************************************************)
(* Adaptive Columnar Perfect Hashing (acph.c): the byte-hash kernel, the   *)
(* column analyzer, the perfect-hash selector, the single-column builder   *)
(* and the recursive tree builder with lookup and teardown.                *)
(***************************************************************************)
EXTENDS Integers, Sequences, FiniteSets, Bags, TLC

(***************************************************************************)
(* Bounds of the model.                                                    *)
(***************************************************************************)
\* longest key, in bytes, handed to create_binary_hash
MaxKeyLen == 2
\* largest number of keys handed to create_binary_hash
MaxKeys == 3
\* largest number of key bytes, all keys together, handed to create_binary_hash
MaxKeyBytes == 4
\* longest array of freely chosen bytes handed to create_character_hash
MaxChars == 3
\* largest number of keys, and of key bytes, all keys together, of the trees
\* whose structure is looked at
MaxTreeKeys == 4
MaxTreeKeyBytes == 3
\* largest number of calls of lookup_binary running at a time, and largest
\* number of keys, and of key bytes, of the trees they run on
MaxReaders == 2
MaxReaderKeys == 3
MaxReaderKeyBytes == 2
\* the keys that are built in every order
MaxOrderKeys == 3
MaxOrderKeyBytes == 3
\* the longest array of bytes whose candidates are all tried
MaxSelectChars == 3

\* byte values the keys are made of: 0x00 (the padding byte) and 'A'
KeyBytes == {0, 65}
\* byte values the single-column arrays are made of
CharBytes == {0, 1, 65, 255}

Byte == 0..255

\* the NULL pointer
Null == [null |-> TRUE]

SeqsUpTo(S, n) == UNION {[1..k -> S] : k \in 0..n}

Range(s) == {s[i] : i \in DOMAIN s}

(***************************************************************************)
(* Byte-hash kernel                                                        *)
(***************************************************************************)
\* the prime table of find_best_hash
primes == <<2, 3, 5, 7, 11, 13, 17, 19, 23, 29, 31, 37, 41, 43, 47, 53, 59, 61,
            67, 71, 73, 79, 83, 89, 97, 101, 103, 107, 113, 127, 131, 137, 149,
            151, 157, 163, 167, 173, 211, 223, 227, 229, 233, 239, 241, 251>>

num_primes == Len(primes)

\* the C operator ^ on non-negative ints
RECURSIVE BitXor(_, _)
BitXor(x, y) ==
    IF x = 0 THEN y
    ELSE IF y = 0 THEN x
    ELSE ((x + y) % 2) + 2 * BitXor(x \div 2, y \div 2)

\* x ^ y for bytes, tabulated
XorTable == [x \in Byte |-> [y \in Byte |-> BitXor(x, y)]]

\* the product before the modulus, computed in int
hash_product(character, a) == XorTable[a - 1][character] * a

\* hash_function without the natural hash of the 256-slot table
hash_function_no_natural(character, a, num_slots) ==
    (hash_product(character, a) % (num_slots + 1)) % 256

\* hash_function returns uint8_t
hash_function(character, a, num_slots) ==
    IF num_slots = 255
    THEN character
    ELSE (hash_product(character, a) % (num_slots + 1)) % 256

(***************************************************************************)
(* Column analyzer                                                         *)
(***************************************************************************)
char_counts(characters, c) == Cardinality({i \in DOMAIN characters : characters[i] = c})

Max(S) == CHOOSE x \in S : \A y \in S : y <= x

\* returns unique_chars and max_occurrence
calculate_character_distribution(characters) ==
    LET present == Range(characters)
    IN  [unique_chars   |-> Cardinality(present),
         max_occurrence |-> IF present = {} THEN 0
                            ELSE Max({char_counts(characters, c) : c \in present})]


(***************************************************************************)
(* Perfect-hash selector                                                   *)
(***************************************************************************)
\* SLOT slot_table[256], the entries 0..num_slots cleared
empty_slot_table(num_slots) == [j \in 0..num_slots |-> [character |-> 0, count |-> 0]]

\* The loops of the C code run over an index range lo..hi in index order.  They
\* are written here by halving the range, so that the evaluation nests only
\* log(hi - lo) deep; the steps still run one after the other, each on the
\* state the previous one left, and a break or goto skips the remaining steps.
\* Each range first looks at the state it is given, which makes the evaluation
\* finish the earlier steps before it starts the later ones.

\* route_step without the false positive: a character that finds its slot
\* taken by another character is counted with it
route_step_no_false_positive(characters, j, a, num_slots, st) ==
    LET c    == characters[j]
        slot == hash_function(c, a, num_slots)
    IN  IF st.slot_table[slot].count = 0
        THEN [st EXCEPT !.slot_table[slot] = [character |-> c, count |-> 1]]
        ELSE [st EXCEPT !.slot_table[slot].count = @ + 1]

\* one pass of the loop over the characters: character j goes to its slot
route_step(characters, j, a, num_slots, st) ==
    LET c    == characters[j]
        slot == hash_function(c, a, num_slots)
    IN  IF st.slot_table[slot].count = 0
        THEN [st EXCEPT !.slot_table[slot] = [character |-> c, count |-> 1]]
        ELSE IF st.slot_table[slot].character # c
        THEN [st EXCEPT !.false_positive = TRUE]
        ELSE LET cnt == st.slot_table[slot].count + 1
             IN  [st EXCEPT !.slot_table[slot].count = cnt,
                            !.differential_score = IF cnt > @ THEN cnt ELSE @]

\* the loop over the characters lo..hi for one candidate (a, num_slots);
\* a false positive breaks out of it
RECURSIVE route(_, _, _, _, _, _)
route(characters, lo, hi, a, num_slots, st) ==
    IF lo > hi \/ st.false_positive THEN st
    ELSE IF lo = hi THEN route_step(characters, lo, a, num_slots, st)
    ELSE LET mid  == (lo + hi) \div 2
             left == route(characters, lo, mid, a, num_slots, st)
         IN  route(characters, mid + 1, hi, a, num_slots, left)

\* try_prime without the goto found_hash, a candidate replacing the best one
\* whenever it does not score worse
try_prime_no_goto(characters, best_possible_score, num_slots, i, best) ==
    LET a == primes[i]
        r == route(characters, 1, Len(characters), a, num_slots,
                   [slot_table         |-> empty_slot_table(num_slots),
                    differential_score |-> best_possible_score,
                    false_positive     |-> FALSE])
    IN  IF r.false_positive
        THEN [best |-> best, found |-> FALSE]
        ELSE LET nb == IF r.differential_score <= best.best_score
                       THEN [best_score      |-> r.differential_score,
                             best_a          |-> a,
                             best_m          |-> num_slots,
                             best_slot_table |-> r.slot_table]
                       ELSE best
             IN  [best |-> nb, found |-> FALSE]

\* one pass of the loop over the primes: candidate (primes[i], num_slots)
try_prime(characters, best_possible_score, num_slots, i, best) ==
    LET a == primes[i]
        r == route(characters, 1, Len(characters), a, num_slots,
                   [slot_table         |-> empty_slot_table(num_slots),
                    differential_score |-> best_possible_score,
                    false_positive     |-> FALSE])
    IN  IF r.false_positive
        THEN [best |-> best, found |-> FALSE]
        ELSE LET nb == IF r.differential_score < best.best_score
                       THEN [best_score      |-> r.differential_score,
                             best_a          |-> a,
                             best_m          |-> num_slots,
                             best_slot_table |-> r.slot_table]
                       ELSE best
             IN  [best |-> nb, found |-> nb.best_score = best_possible_score]

\* the loop over the primes lo..hi for one num_slots; found is the goto found_hash
RECURSIVE scan_primes(_, _, _, _, _, _)
scan_primes(characters, best_possible_score, num_slots, lo, hi, acc) ==
    IF lo > hi \/ acc.found THEN acc
    ELSE IF lo = hi THEN try_prime(characters, best_possible_score, num_slots, lo, acc.best)
    ELSE LET mid  == (lo + hi) \div 2
             left == scan_primes(characters, best_possible_score, num_slots, lo, mid, acc)
         IN  scan_primes(characters, best_possible_score, num_slots, mid + 1, hi, left)

\* the passes of do { num_slots++; ... } while (num_slots < 255) for num_slots in lo..hi
RECURSIVE scan_slots(_, _, _, _, _)
scan_slots(characters, best_possible_score, lo, hi, acc) ==
    IF lo > hi \/ acc.found THEN acc
    ELSE IF lo = hi
    THEN scan_primes(characters, best_possible_score, lo, 1, num_primes, acc)
    ELSE LET mid  == (lo + hi) \div 2
             left == scan_slots(characters, best_possible_score, lo, mid, acc)
         IN  scan_slots(characters, best_possible_score, mid + 1, hi, left)

\* num_slots is a uint8_t: it starts at min_unique_chars - 1, the first pass
\* increments it (both modulo 256) and the passes go on up to 255
first_num_slots(min_unique_chars) == (((min_unique_chars - 1) % 256) + 1) % 256

\* the node find_best_hash allocates and fills; its column is left unset
find_best_hash(characters, best_possible_score, min_unique_chars) ==
    LET best == scan_slots(characters, best_possible_score,
                           first_num_slots(min_unique_chars), 255,
                           [best  |-> [best_score      |-> Len(characters) + 1,
                                       best_a          |-> 0,
                                       best_m          |-> 0,
                                       best_slot_table |-> empty_slot_table(0)],
                            found |-> FALSE]).best
    IN  [prime     |-> best.best_a,
         num_slots |-> best.best_m,
         slot      |-> [i \in 0..best.best_m |->
                          IF best.best_slot_table[i].count > 0
                          THEN [character |-> best.best_slot_table[i].character,
                                count     |-> best.best_slot_table[i].count,
                                payload   |-> 0,
                                next_node |-> Null]
                          ELSE [character |-> 0, count |-> 0, payload |-> 0, next_node |-> Null]]]

(***************************************************************************)
(* Single-column builder and lookup                                        *)
(***************************************************************************)
\* set_payload keeping the payload a slot already has
set_payload_keep_first(node, characters, payloads_in, i) ==
    LET slot == hash_function(characters[i], node.prime, node.num_slots)
    IN  IF /\ node.slot[slot].count = 1
           /\ node.slot[slot].character = characters[i]
           /\ node.slot[slot].payload = 0
        THEN [node EXCEPT !.slot[slot].payload = payloads_in[i]]
        ELSE node

\* one pass of the loop that sets the payloads: character i sets its slot's payload
set_payload(node, characters, payloads_in, i) ==
    LET slot == hash_function(characters[i], node.prime, node.num_slots)
    IN  IF node.slot[slot].count = 1 /\ node.slot[slot].character = characters[i]
        THEN [node EXCEPT !.slot[slot].payload = payloads_in[i]]
        ELSE node

\* the loop that sets the payloads, for the characters lo..hi
RECURSIVE set_payloads(_, _, _, _, _)
set_payloads(node, characters, payloads_in, lo, hi) ==
    IF lo > hi \/ node = Null THEN node
    ELSE IF lo = hi THEN set_payload(node, characters, payloads_in, lo)
    ELSE LET mid  == (lo + hi) \div 2
             left == set_payloads(node, characters, payloads_in, lo, mid)
         IN  set_payloads(left, characters, payloads_in, mid + 1, hi)

create_character_hash(characters, payloads_in) ==
    LET d    == calculate_character_distribution(characters)
        node == find_best_hash(characters, d.max_occurrence, d.unique_chars)
        flat == [node EXCEPT !.slot = [i \in 0..node.num_slots |->
                                         IF node.slot[i].count > 1
                                         THEN [node.slot[i] EXCEPT !.count = 1]
                                         ELSE node.slot[i]]]
    IN  set_payloads(flat, characters, payloads_in, 1, Len(characters))

\* lookup_character without the comparison of the slot's character
lookup_character_no_compare(character, node, payload_out) ==
    LET slot == hash_function(character, node.prime, node.num_slots)
    IN  IF node.slot[slot].count > 0
        THEN [found |-> 1, payload |-> node.slot[slot].payload]
        ELSE [found |-> 0, payload |-> payload_out]

\* payload_out is written only on a hit
lookup_character(character, node, payload_out) ==
    LET slot == hash_function(character, node.prime, node.num_slots)
    IN  IF node.slot[slot].count > 0 /\ node.slot[slot].character = character
        THEN [found |-> 1, payload |-> node.slot[slot].payload]
        ELSE [found |-> 0, payload |-> payload_out]

(***************************************************************************)
(* Heap: the allocations that are live, each with the place that made it   *)
(***************************************************************************)
EmptyHeap == [live |-> {}, next |-> 1, double_free |-> FALSE]

\* malloc returns the address h.next
malloc(h, kind) ==
    [h EXCEPT !.live = @ \cup {[id |-> h.next, kind |-> kind]}, !.next = @ + 1]

\* free of an address that is not live is recorded as a double free
free(h, id) ==
    IF \E al \in h.live : al.id = id
    THEN [h EXCEPT !.live = {al \in @ : al.id # id}]
    ELSE [h EXCEPT !.double_free = TRUE]

(***************************************************************************)
(* Tree builder                                                            *)
(***************************************************************************)
\* The caller's memory m maps a buffer to its bytes (data) and to the byte a
\* read past the end of the buffer returns (tail).  A BinaryValue is a record
\* with binary, the buffer it points to, and length.

\* values[i].binary[c] read with the length check: 0 past the end of the key
padded_byte(m, v, c) ==
    IF v.length > c THEN m[v.binary].data[c + 1] ELSE 0

\* values[j].binary[c] read without a length check: past the end of the key
\* the read returns whatever lies behind the buffer
raw_byte(m, v, c) ==
    IF c < v.length THEN m[v.binary].data[c + 1] ELSE m[v.binary].tail

\* survey keeping the later column when two columns have the same largest
\* number of occurrences
RECURSIVE survey_keep_last(_, _, _, _)
survey_keep_last(values_in, m, c, best) ==
    LET num_values   == Len(values_in)
        column_chars == [i \in 1..num_values |-> padded_byte(m, values_in[i], c)]
        last_column  == \A i \in 1..num_values : ~(values_in[i].length > c)
        d            == calculate_character_distribution(column_chars)
        nb == IF d.max_occurrence <= best.best_num_slots
              THEN [best_column       |-> c,
                    best_num_slots    |-> d.max_occurrence,
                    best_unique_chars |-> d.unique_chars,
                    best_column_chars |-> column_chars]
              ELSE best
    IN  IF last_column THEN nb ELSE survey_keep_last(values_in, m, c + 1, nb)

\* the column survey from column c on: the loop ends after the first column
\* in which no value has a byte, and that column is analysed as well
RECURSIVE survey(_, _, _, _)
survey(values_in, m, c, best) ==
    LET num_values   == Len(values_in)
        column_chars == [i \in 1..num_values |-> padded_byte(m, values_in[i], c)]
        last_column  == \A i \in 1..num_values : ~(values_in[i].length > c)
        d            == calculate_character_distribution(column_chars)
        nb == IF d.max_occurrence < best.best_num_slots
              THEN [best_column       |-> c,
                    best_num_slots    |-> d.max_occurrence,
                    best_unique_chars |-> d.unique_chars,
                    best_column_chars |-> column_chars]
              ELSE best
    IN  IF last_column THEN nb ELSE survey(values_in, m, c + 1, nb)

\* find_binary reading the byte without the length check, as the gather loop does
find_binary_unchecked(values_in, m, column, character) ==
    LET hits == {j \in 1..Len(values_in) : raw_byte(m, values_in[j], column) = character}
    IN  IF hits = {} THEN 0 ELSE CHOOSE j \in hits : \A k \in hits : j <= k

\* the first value whose padded byte at the column is the slot's character
find_binary(values_in, m, column, character) ==
    LET hits == {j \in 1..Len(values_in) : padded_byte(m, values_in[j], column) = character}
    IN  IF hits = {} THEN 0 ELSE CHOOSE j \in hits : \A k \in hits : j <= k

\* gather without the comparison of the byte: the first values of the array
\* are taken, as many as the slot counts
gather_first(values_in, m, column, character, j) ==
    LET cnt == Cardinality({k \in j..Len(values_in) :
                               padded_byte(m, values_in[k], column) = character})
    IN  [k \in 1..cnt |-> j + k - 1]

\* the indexes, in input order, of the values gathered for a group slot
RECURSIVE gather(_, _, _, _, _)
gather(values_in, m, column, character, j) ==
    IF j > Len(values_in) THEN <<>>
    ELSE IF raw_byte(m, values_in[j], column) = character
    THEN <<j>> \o gather(values_in, m, column, character, j + 1)
    ELSE gather(values_in, m, column, character, j + 1)

\* the frees of the duplicate path: the leaf records of the slots 0..i
RECURSIVE free_leaves(_, _, _, _)
free_leaves(node, j, i, h) ==
    IF j > i THEN h
    ELSE IF node.slot[j].count = 1 /\ node.slot[j].next_node # Null
    THEN free_leaves(node, j + 1, i, free(h, node.slot[j].next_node.addr))
    ELSE free_leaves(node, j + 1, i, h)

\* What one call of create_binary_hash with at least one value did: the values
\* it was given, the column it chose and that column's byte image, the table
\* find_best_hash returned (Null when the call returned the duplicate signal
\* before it made one) and, for every group slot it came to, the indexes of the
\* values it gathered.
call(values_in, best, table, groups) ==
    [values       |-> values_in,
     column       |-> best.best_column,
     column_chars |-> best.best_column_chars,
     num_slots    |-> best.best_num_slots,
     unique_chars |-> best.best_unique_chars,
     table        |-> table,
     groups       |-> groups]

\* The result of create_binary_hash: node is the root or Null, heap the heap
\* it leaves, panic whether the build exited with "PANIC: Binary not found",
\* overrun whether more values were gathered for a group than its arrays
\* hold.  The writes past the end of the arrays leave the build undefined:
\* it is followed no further.  calls lists the calls of create_binary_hash
\* that were made, this one first.
RECURSIVE create_binary_hash(_, _, _, _)
RECURSIVE populate(_, _, _, _, _)
RECURSIVE child_built(_, _, _, _, _, _, _, _)

\* a group slot once the values idx have been gathered for it: the overrun of
\* the group arrays, or the recursive call and what follows it
group_gathered(values_in, payloads_in, m, i, st, idx) ==
    LET h1     == malloc(st.heap, "grouped_strings")
        h2     == malloc(h1, "grouped_payloads")
        count  == Len(idx)
        groups == Append(st.groups, [slot |-> i, idx |-> idx])
    IN  IF count > st.node.slot[i].count
        THEN [st EXCEPT !.returned = TRUE, !.overrun = TRUE, !.heap = h2,
                        !.groups = groups]
        ELSE child_built(values_in, payloads_in, m, i,
                         [st EXCEPT !.groups = groups],
                         create_binary_hash([k \in 1..count |-> values_in[idx[k]]],
                                            [k \in 1..count |-> payloads_in[idx[k]]],
                                            m, h2),
                         st.heap.next, h1.next)

\* a group slot once the recursive call has returned child: grouped_strings
\* is freed, a NULL child is the duplicate signal, and the loop goes on
\* otherwise
child_built(values_in, payloads_in, m, i, st, child, grouped_strings_addr, grouped_payloads_addr) ==
    IF child.panic \/ child.overrun
    THEN [st EXCEPT !.returned = TRUE, !.panic = child.panic,
                    !.overrun = child.overrun, !.heap = child.heap,
                    !.calls = @ \o child.calls]
    ELSE IF child.node = Null
    THEN [st EXCEPT !.returned = TRUE,
                    !.heap = free(free_leaves(st.node, 0, i,
                                      free(free(child.heap, grouped_strings_addr),
                                           grouped_payloads_addr)),
                                  st.node.addr),
                    !.node = Null,
                    !.calls = @ \o child.calls]
    ELSE populate(values_in, payloads_in, m, i + 1,
                  [st EXCEPT !.heap = free(child.heap, grouped_strings_addr),
                             !.node.slot[i].next_node = child.node,
                             !.calls = @ \o child.calls])

\* the loop over the slots from slot i on; st carries the node, the heap, the
\* flags, the values gathered for the group slots and the calls made for
\* them, and st.returned is set when the loop returns NULL or exits
populate(values_in, payloads_in, m, i, st) ==
    IF st.returned \/ i > st.node.num_slots THEN st
    ELSE LET node == st.node
             sl   == node.slot[i]
         IN  IF sl.count = 0
             THEN populate(values_in, payloads_in, m, i + 1, st)
             ELSE IF sl.count = 1
             THEN LET j == find_binary(values_in, m, node.column, sl.character)
                  IN  IF j = 0
                      THEN [st EXCEPT !.returned = TRUE, !.panic = TRUE]
                      ELSE LET h1   == malloc(st.heap, "binary")
                               leaf == [addr   |-> st.heap.next,
                                        binary |-> values_in[j].binary,
                                        length |-> values_in[j].length]
                           IN  populate(values_in, payloads_in, m, i + 1,
                                        [st EXCEPT !.heap = h1,
                                                   !.node.slot[i].next_node = leaf,
                                                   !.node.slot[i].payload = payloads_in[j]])
             ELSE group_gathered(values_in, payloads_in, m, i, st,
                                 gather(values_in, m, node.column, sl.character, 1))

\* what a call returns once the loop over the slots has ended in st
populated(values_in, best, table, st, best_column_chars_addr) ==
    IF st.returned
    THEN [node |-> Null, heap |-> st.heap, overrun |-> st.overrun, panic |-> st.panic,
          calls |-> <<call(values_in, best, table, st.groups)>> \o st.calls]
    ELSE [node |-> st.node, heap |-> free(st.heap, best_column_chars_addr),
          overrun |-> st.overrun, panic |-> FALSE,
          calls |-> <<call(values_in, best, table, st.groups)>> \o st.calls]

\* the node of the best column, table being what find_best_hash returned for
\* it, and the loop over its slots
node_made(values_in, payloads_in, m, h, best, table, best_column_chars_addr) ==
    populated(values_in, best, table,
              populate(values_in, payloads_in, m, 0,
                       [node     |-> [addr |-> h.next, column |-> best.best_column] @@ table,
                        heap     |-> malloc(h, "node"),
                        overrun  |-> FALSE,
                        panic    |-> FALSE,
                        returned |-> FALSE,
                        groups   |-> <<>>,
                        calls    |-> <<>>]),
              best_column_chars_addr)

\* a call once the survey has found the best column
surveyed(values_in, payloads_in, m, h, best, best_column_chars_addr) ==
    IF best.best_unique_chars = 1 /\ Len(values_in) > 1
    THEN [node |-> Null, heap |-> h, overrun |-> FALSE, panic |-> FALSE,
          calls |-> <<call(values_in, best, Null, <<>>)>>]
    ELSE node_made(values_in, payloads_in, m, h, best,
                   find_best_hash(best.best_column_chars, best.best_num_slots,
                                  best.best_unique_chars),
                   best_column_chars_addr)

create_binary_hash(values_in, payloads_in, m, h) ==
    LET num_values == Len(values_in)
    IN  IF num_values < 1
        THEN [node |-> Null, heap |-> h, overrun |-> FALSE, panic |-> FALSE, calls |-> <<>>]
        ELSE LET h1 == malloc(h, "column_chars")
                 h2 == malloc(h1, "best_column_chars")
             IN  surveyed(values_in, payloads_in, m, free(h2, h.next),
                          survey(values_in, m, 0,
                                 [best_column       |-> 0,
                                  best_num_slots    |-> num_values + 1,
                                  best_unique_chars |-> 0,
                                  best_column_chars |-> <<>>]),
                          h1.next)

(***************************************************************************)
(* Tree lookup and teardown                                                *)
(***************************************************************************)
\* leaf_value reading the caller's array entry instead of a copy of it: the
\* entry is gone once the caller has released the array
leaf_value_aliased(leaf, caller_values) ==
    IF \E j \in DOMAIN caller_values : caller_values[j].binary = leaf.binary
    THEN [binary |-> leaf.binary, length |-> leaf.length]
    ELSE [binary |-> leaf.binary, length |-> 0]

\* the BinaryValue a leaf's next_node.binary points to: the record the builder
\* allocated and filled by memcpy; caller_values is the caller's array
leaf_value(leaf, caller_values) == [binary |-> leaf.binary, length |-> leaf.length]

\* compare_binaries without the memcmp
compare_binaries_length_only(str1, str2, m) ==
    IF Len(str1) # str2.length THEN 0 ELSE 1

\* str1 is the key looked up, as bytes; str2 a BinaryValue in memory m
compare_binaries(str1, str2, m) ==
    IF Len(str1) # str2.length THEN 0
    ELSE IF \A k \in 1..Len(str1) : str1[k] = m[str2.binary].data[k] THEN 1 ELSE 0

RECURSIVE lookup_binary(_, _, _, _, _)
lookup_binary(str, node, payload_out, m, caller_values) ==
    LET effective_column == node.column
        character == IF effective_column >= Len(str) THEN 0 ELSE str[effective_column + 1]
        slot      == hash_function(character, node.prime, node.num_slots)
    IN  IF node.slot[slot].count = 0
        THEN [found |-> 0, payload |-> payload_out]
        ELSE IF node.slot[slot].count = 1
        THEN IF compare_binaries(str, leaf_value(node.slot[slot].next_node, caller_values), m) = 1
             THEN [found |-> 1, payload |-> node.slot[slot].payload]
             ELSE [found |-> 0, payload |-> payload_out]
        ELSE lookup_binary(str, node.slot[slot].next_node, payload_out, m, caller_values)

RECURSIVE free_tree(_, _)
RECURSIVE free_slots(_, _, _)

\* the loop of free_tree over the slots from slot i on
free_slots(node, i, h) ==
    IF i > node.num_slots THEN h
    ELSE IF node.slot[i].count > 1
    THEN free_slots(node, i + 1, free_tree(node.slot[i].next_node, h))
    ELSE IF node.slot[i].count = 1
    THEN free_slots(node, i + 1, free(h, node.slot[i].next_node.addr))
    ELSE free_slots(node, i + 1, h)

free_tree(node, h) ==
    IF node = Null THEN h
    ELSE free(free_slots(node, 0, h), node.addr)

(***************************************************************************)
(* Diagnostics                                                             *)
(***************************************************************************)
\* the sum of the values of a function
RECURSIVE sum(_)
sum(f) ==
    IF DOMAIN f = {} THEN 0
    ELSE LET i == CHOOSE x \in DOMAIN f : TRUE
         IN  f[i] + sum([x \in DOMAIN f \ {i} |-> f[x]])

\* hash_efficiency with max_comparisons taken from total_comparisons
RECURSIVE hash_efficiency_total(_)
hash_efficiency_total(node) ==
    LET children == {i \in 0..node.num_slots : node.slot[i].count > 1}
        sub == [i \in children |-> hash_efficiency_total(node.slot[i].next_node)]
        used  == [i \in children |-> sub[i].slots_used]
        empty == [i \in children |-> sub[i].empty_slots]
        comps == [i \in children |-> sub[i].max_comparisons]
        leaves   == Cardinality({i \in 0..node.num_slots : node.slot[i].count = 1})
    IN  [slots_used      |-> (node.num_slots + 1) + sum(used),
         empty_slots     |-> Cardinality({i \in 0..node.num_slots : node.slot[i].count = 0})
                             + sum(empty),
         max_comparisons |-> leaves + sum(comps)]

\* the walk of hash_efficiency: what it stores through slots_used, empty_slots
\* and max_comparisons
RECURSIVE hash_efficiency(_)
hash_efficiency(node) ==
    LET children == {i \in 0..node.num_slots : node.slot[i].count > 1}
        sub == [i \in children |-> hash_efficiency(node.slot[i].next_node)]
        used  == [i \in children |-> sub[i].slots_used]
        empty == [i \in children |-> sub[i].empty_slots]
        \* total_slots: one for every slot of the node, and the child's slots_used
        total_slots == (node.num_slots + 1) + sum(used)
        total_empty_slots == Cardinality({i \in 0..node.num_slots : node.slot[i].count = 0})
                             + sum(empty)
        max_comparisons_needed == Max({0} \cup {sub[i].max_comparisons : i \in children})
    IN  [slots_used      |-> total_slots,
         empty_slots     |-> total_empty_slots,
         max_comparisons |-> max_comparisons_needed + 1]

\* what hash_table_efficiency stores and prints; the division is C's, of
\* size_t, cast to int
hash_table_efficiency(node) ==
    LET e == hash_efficiency(node)
    IN  [slots_used      |-> e.slots_used,
         slot_efficiency |-> (e.slots_used * 100) \div (e.slots_used + e.empty_slots),
         max_comparisons |-> e.max_comparisons]

(***************************************************************************)
(* State                                                                   *)
(***************************************************************************)
VARIABLES
    pc,          \* "idle" before the build; then "built" (a root was returned),
                 \* "null" (NULL was returned), "exited" (exit(1)),
                 \* "undefined" (a group array was overrun), "freed" or
                 \* "rebuilt" (the builder has run a second time)
    characters,  \* the byte array handed to create_character_hash
    mem,         \* the caller's key buffers
    values,      \* the caller's array of BinaryValue, handed to create_binary_hash
    payloads,    \* the payload array handed to the builder
    root,        \* the HashNode the builder returned, or Null
    heap,        \* the allocations of the library that are live
    res,         \* the last lookup since the caller last changed anything, and what it returned
    fresh,       \* the caller's key buffers and array, and the tree, as they were
                 \* when the build returned
    touched,     \* whether the caller has overwritten a key buffer since the build
    again,       \* what a second run of the builder on the same keys returned
    readers,     \* the calls of lookup_binary that are running, a bag
    eff,         \* what hash_table_efficiency reported
    hashed,      \* the arguments handed to hash_function, and what it returned
    calls,       \* the calls of create_binary_hash the build made
    tried        \* a candidate (prime, num_slots) tried on characters, and how it fared

vars == <<pc, characters, mem, values, payloads, root, heap, res, fresh, touched, again,
          readers, eff, hashed, calls, tried>>

\* the value of a Payload variable the caller has not set
Unset == -1

NoLookup == [none |-> TRUE]

NoRun == [none |-> TRUE]

\* the caller numbers the payloads 1, 2, 3, ...
IndexPayloads(n) == [i \in 1..n |-> i]

\* the array 0x00 .. 0xff of full_test_characters
FullAlphabet == [i \in 1..256 |-> i - 1]

\* 255 distinct bytes
AlmostFullAlphabet == [i \in 1..255 |-> i - 1]

\* 255 distinct bytes: every byte but 0x01
AllButOne == [i \in 1..255 |-> IF i = 1 THEN 0 ELSE i]

CharInputs == SeqsUpTo(CharBytes, MaxChars) \cup {FullAlphabet, AlmostFullAlphabet, AllButOne}

\* the keys the builder is given, and the keys that are looked up
Keys == SeqsUpTo(KeyBytes, MaxKeyLen)

Queries == Keys

(***************************************************************************)
(* The single-column builder and its lookups                               *)
(***************************************************************************)
InitChar ==
    /\ pc = "idle"
    /\ characters \in CharInputs
    /\ payloads = IndexPayloads(Len(characters))
    /\ root = Null
    /\ res = NoLookup
    /\ mem = <<>>
    /\ values = <<>>
    /\ heap = EmptyHeap
    /\ fresh = <<>>
    /\ touched = FALSE
    /\ again = NoRun
    /\ readers = EmptyBag
    /\ eff = NoRun
    /\ hashed = NoRun
    /\ calls = <<>>
    /\ tried = NoRun

CreateCharacterHash ==
    /\ pc = "idle"
    /\ root' = create_character_hash(characters, payloads)
    /\ pc' = "built"
    /\ UNCHANGED <<characters, mem, values, payloads, heap, res, fresh, touched, again, readers, eff, hashed, calls, tried>>

\* the caller takes the result of its last lookup: found and the payload
\* written through payload_out are locals of the caller, gone before it
\* looks up again
TakeResult ==
    /\ res # NoLookup
    /\ res' = NoLookup
    /\ UNCHANGED <<pc, characters, mem, values, payloads, root, heap, fresh, touched, again, readers, eff, hashed, calls, tried>>

LookupCharacter(b) ==
    /\ pc = "built"
    /\ res = NoLookup
    /\ res' = [key |-> b] @@ lookup_character(b, root, Unset)
    /\ UNCHANGED <<pc, characters, mem, values, payloads, root, heap, fresh, touched, again, readers, eff, hashed, calls, tried>>

NextChar ==
    \/ CreateCharacterHash
    \/ \E b \in Byte : LookupCharacter(b)
    \/ TakeResult

SpecChar == InitChar /\ [][NextChar]_vars

(***************************************************************************)
(* The tree builder, its lookups and its teardown                          *)
(***************************************************************************)
\* the number of bytes of the keys ks[i], i in 1..n
RECURSIVE TotalLen(_, _)
TotalLen(ks, n) == IF n = 0 THEN 0 ELSE Len(ks[n]) + TotalLen(ks, n - 1)

\* The caller holds up to MaxKeys keys of up to MaxKeyBytes bytes together,
\* each in a buffer of its own; the byte behind a key shorter than MaxKeyLen
\* is arbitrary (a longest key is never read past its end).
Init ==
    /\ pc = "idle"
    /\ characters = <<>>
    /\ \E n \in 0..MaxKeys :
         \E ks \in {k \in [1..n -> Keys] : TotalLen(k, n) <= MaxKeyBytes}, ts \in [1..n -> KeyBytes] :
            /\ \A i \in 1..n : Len(ks[i]) = MaxKeyLen => ts[i] = 0
            /\ mem = [i \in 1..n |-> [data |-> ks[i], tail |-> ts[i]]]
            /\ values = [i \in 1..n |-> [binary |-> i, length |-> Len(ks[i])]]
            /\ payloads = IndexPayloads(n)
    /\ root = Null
    /\ heap = EmptyHeap
    /\ res = NoLookup
    /\ fresh = <<>>
    /\ touched = FALSE
    /\ again = NoRun
    /\ readers = EmptyBag
    /\ eff = NoRun
    /\ hashed = NoRun
    /\ calls = <<>>
    /\ tried = NoRun

\* what a run of the builder came to
outcome(r) ==
    IF r.overrun THEN "undefined"
    ELSE IF r.panic THEN "exited"
    ELSE IF r.node = Null THEN "null" ELSE "built"

CreateBinaryHash ==
    /\ pc = "idle"
    /\ LET r == create_binary_hash(values, payloads, mem, heap)
       IN  /\ root' = r.node
           /\ heap' = r.heap
           /\ pc' = outcome(r)
           /\ fresh' = IF r.node = Null THEN <<>>
                       ELSE [mem |-> mem, values |-> values, root |-> r.node]
           /\ calls' = r.calls
    /\ UNCHANGED <<characters, mem, values, payloads, res, touched, again, readers, eff, hashed, tried>>

LookupBinary(q) ==
    /\ pc = "built"
    /\ res = NoLookup
    /\ res' = [key |-> q, released |-> values = <<>>]
              @@ lookup_binary(q, root, Unset, mem, values)
    /\ UNCHANGED <<pc, characters, mem, values, payloads, root, heap, fresh, touched, again, readers, eff, hashed, calls, tried>>

\* the caller frees its array of BinaryValue, as create_string_hash does
ReleaseValues ==
    /\ pc \in {"built", "null"}
    /\ values # <<>>
    /\ values' = <<>>
    /\ res' = NoLookup
    /\ UNCHANGED <<pc, characters, mem, payloads, root, heap, fresh, touched, again, readers, eff, hashed, calls, tried>>

\* the caller overwrites the first byte of one of its key buffers
OverwriteKeyBuffer(i, b) ==
    /\ pc = "built"
    /\ ~touched
    /\ i \in DOMAIN mem
    /\ Len(mem[i].data) >= 1
    /\ b # mem[i].data[1]
    /\ mem' = [mem EXCEPT ![i].data[1] = b]
    /\ touched' = TRUE
    /\ res' = NoLookup
    /\ UNCHANGED <<pc, characters, values, payloads, root, heap, fresh, again, readers, eff, hashed, calls, tried>>

\* what the caller holds after a run of the builder
run_result(r) == [pc |-> outcome(r), root |-> r.node]

\* the caller's key buffers when the bytes behind them have all become b; a
\* key of the largest length has the terminating 0x00 behind it
second_mem(b) ==
    [i \in DOMAIN mem |->
        [data |-> mem[i].data,
         tail |-> IF Len(mem[i].data) = MaxKeyLen THEN 0 ELSE b]]

\* The caller builds a second time from the same keys and payloads, before it
\* changes or releases anything.  The bytes behind the key buffers are no part
\* of the keys: by this run they may have changed, here all to the same byte b.
CreateBinaryHashAgain ==
    /\ pc \in {"built", "null"}
    /\ res = NoLookup
    /\ ~touched
    /\ values # <<>>
    /\ \E b \in KeyBytes :
         again' = run_result(create_binary_hash(values, payloads, second_mem(b), heap))
    /\ pc' = "rebuilt"
    /\ UNCHANGED <<characters, mem, values, payloads, root, heap, res, fresh, touched, readers, eff, hashed, calls, tried>>

FreeTree ==
    /\ pc = "built"
    /\ heap' = free_tree(root, heap)
    /\ pc' = "freed"
    /\ res' = NoLookup
    /\ UNCHANGED <<characters, mem, values, payloads, root, fresh, touched, again, readers, eff, hashed, calls, tried>>

Next ==
    \/ CreateBinaryHash
    \/ \E q \in Queries : LookupBinary(q)
    \/ ReleaseValues
    \/ \E i \in 1..MaxKeys, b \in KeyBytes : OverwriteKeyBuffer(i, b)
    \/ FreeTree
    \/ TakeResult

Spec == Init /\ [][Next]_vars

(***************************************************************************)
(* The tree builder and the structure of its trees                         *)
(***************************************************************************)
\* the sequences of n keys of up to budget bytes together
RECURSIVE KeySeqs(_, _)
KeySeqs(n, budget) ==
    IF n = 0 THEN {<<>>}
    ELSE UNION {{Append(ks, k) : ks \in KeySeqs(n - 1, budget - Len(k))} :
                   k \in {k \in Keys : Len(k) <= budget}}

\* As Init, with up to max_keys keys of up to max_bytes bytes together.  The
\* builder reads a key at a column that holds two different bytes, a column
\* some key of the input has a byte in: a longest key of the input is never
\* read past its end.
InitKeys(max_keys, max_bytes) ==
    /\ pc = "idle"
    /\ characters = <<>>
    /\ \E n \in 0..max_keys :
         \E ks \in KeySeqs(n, max_bytes), ts \in [1..n -> KeyBytes] :
            /\ \A i \in 1..n : (\A j \in 1..n : Len(ks[j]) <= Len(ks[i])) => ts[i] = 0
            /\ mem = [i \in 1..n |-> [data |-> ks[i], tail |-> ts[i]]]
            /\ values = [i \in 1..n |-> [binary |-> i, length |-> Len(ks[i])]]
            /\ payloads = IndexPayloads(n)
    /\ root = Null
    /\ heap = EmptyHeap
    /\ res = NoLookup
    /\ fresh = <<>>
    /\ touched = FALSE
    /\ again = NoRun
    /\ readers = EmptyBag
    /\ eff = NoRun
    /\ hashed = NoRun
    /\ calls = <<>>
    /\ tried = NoRun

InitTree == InitKeys(MaxTreeKeys, MaxTreeKeyBytes)

\* the caller asks for the efficiency of the built tree, as a_binary_test does
HashTableEfficiency ==
    /\ pc = "built"
    /\ eff = NoRun
    /\ eff' = hash_table_efficiency(root)
    /\ UNCHANGED <<pc, characters, mem, values, payloads, root, heap, res, fresh, touched,
                   again, readers, hashed, calls, tried>>

NextTree ==
    \/ CreateBinaryHash
    \/ CreateBinaryHashAgain
    \/ HashTableEfficiency

SpecTree == InitTree /\ [][NextTree]_vars

(***************************************************************************)
(* Both builders: the caller holds an array of bytes or an array of keys   *)
(***************************************************************************)
InitAll == InitChar \/ InitTree

NextAll ==
    \/ CreateCharacterHash
    \/ CreateBinaryHash
    \/ CreateBinaryHashAgain

SpecAll == InitAll /\ [][NextAll]_vars

(***************************************************************************)
(* The builder on the same (key, payload) pairs in another order            *)
(***************************************************************************)
InitOrder == InitKeys(MaxOrderKeys, MaxOrderKeyBytes)

\* the permutations of 1..n
orders(n) == {p \in [1..n -> 1..n] : \A i, j \in 1..n : p[i] = p[j] => i = j}

\* the array a with its entries in the order p
permuted(a, p) == [i \in DOMAIN a |-> a[p[i]]]

\* The caller builds again from the same pairs, handed over in the order p;
\* the key buffers are where and what they were.
CreateBinaryHashPermuted ==
    /\ pc \in {"built", "null"}
    /\ \E p \in orders(Len(values)) :
         again' = [order |-> p]
                  @@ run_result(create_binary_hash(permuted(values, p), permuted(payloads, p),
                                                   mem, heap))
    /\ pc' = "permuted"
    /\ UNCHANGED <<characters, mem, values, payloads, root, heap, res, fresh, touched, readers,
                   eff, hashed, calls, tried>>

NextOrder ==
    \/ CreateBinaryHash
    \/ CreateBinaryHashPermuted

SpecOrder == InitOrder /\ [][NextOrder]_vars

(***************************************************************************)
(* The selector on its own: an array of bytes and the candidates of its scan *)
(***************************************************************************)
InitSelect ==
    /\ pc = "idle"
    /\ characters \in SeqsUpTo(KeyBytes, MaxSelectChars)
    /\ payloads = <<>>
    /\ mem = <<>>
    /\ values = <<>>
    /\ root = Null
    /\ heap = EmptyHeap
    /\ res = NoLookup
    /\ fresh = <<>>
    /\ touched = FALSE
    /\ again = NoRun
    /\ readers = EmptyBag
    /\ eff = NoRun
    /\ hashed = NoRun
    /\ calls = <<>>
    /\ tried = NoRun

\* find_best_hash on the array, with the distribution of the array as its
\* callers pass it
FindBestHash ==
    /\ pc = "idle"
    /\ LET d == calculate_character_distribution(characters)
       IN  root' = find_best_hash(characters, d.max_occurrence, d.unique_chars)
    /\ pc' = "selected"
    /\ UNCHANGED <<characters, mem, values, payloads, heap, res, fresh, touched, again,
                   readers, eff, hashed, calls, tried>>

\* one pass of the loop over the primes, for a candidate of the scan: the
\* slot table is filled until a false positive breaks the loop
TryCandidate ==
    /\ pc = "selected"
    /\ tried = NoRun
    /\ LET d == calculate_character_distribution(characters)
       IN  \E num_slots \in first_num_slots(d.unique_chars)..255, i \in 1..num_primes :
             tried' = [a |-> primes[i], num_slots |-> num_slots]
                      @@ route(characters, 1, Len(characters), primes[i], num_slots,
                               [slot_table         |-> empty_slot_table(num_slots),
                                differential_score |-> d.max_occurrence,
                                false_positive     |-> FALSE])
    /\ UNCHANGED <<pc, characters, mem, values, payloads, root, heap, res, fresh, touched,
                   again, readers, eff, hashed, calls>>

NextSelect ==
    \/ FindBestHash
    \/ TryCandidate

SpecSelect == InitSelect /\ [][NextSelect]_vars

(***************************************************************************)
(* The byte hash on its own: every prime of the table, every slot count    *)
(***************************************************************************)
InitHash ==
    /\ pc = "idle"
    /\ characters = <<>>
    /\ payloads = <<>>
    /\ mem = <<>>
    /\ values = <<>>
    /\ root = Null
    /\ heap = EmptyHeap
    /\ res = NoLookup
    /\ fresh = <<>>
    /\ touched = FALSE
    /\ again = NoRun
    /\ readers = EmptyBag
    /\ eff = NoRun
    /\ hashed \in [a : Range(primes), num_slots : Byte]
    /\ calls = <<>>
    /\ tried = NoRun

\* one call hash_function(character, a, num_slots)
HashFunction ==
    /\ DOMAIN hashed = {"a", "num_slots"}
    /\ \E character \in Byte :
           hashed' = [a         |-> hashed.a,
                      num_slots |-> hashed.num_slots,
                      character |-> character,
                      slot      |-> hash_function(character, hashed.a, hashed.num_slots)]
    /\ UNCHANGED <<pc, characters, mem, values, payloads, root, heap, res, fresh, touched,
                   again, readers, eff, calls, tried>>

NextHash == HashFunction

SpecHash == InitHash /\ [][NextHash]_vars

(***************************************************************************)
(* Lookups running at the same time                                        *)
(***************************************************************************)
\* A call of lookup_binary is a record rd: str the key looked up, path the
\* slots that lead from the root to the node the call is at, slot its local
\* variable, phase where it stands ("hash" before the slot is computed,
\* "probe" before the slot is examined, "done" when it has returned), found
\* what it returned and payload what payload_out points to.

\* the node a path of slots leads to
RECURSIVE node_at(_, _)
node_at(tree, path) ==
    IF path = <<>> THEN tree
    ELSE node_at(tree.slot[Head(path)].next_node, Tail(path))

\* the tree with the count of a slot of the node at path set to c
RECURSIVE set_count(_, _, _, _)
set_count(tree, path, slot, c) ==
    IF path = <<>> THEN [tree EXCEPT !.slot[slot].count = c]
    ELSE [tree EXCEPT !.slot[Head(path)].next_node = set_count(@, Tail(path), slot, c)]

\* the first half of a pass of lookup_binary: the slot of the key's byte
lookup_hash(rd, tree) ==
    LET node == node_at(tree, rd.path)
        effective_column == node.column
        character == IF effective_column >= Len(rd.str) THEN 0
                     ELSE rd.str[effective_column + 1]
    IN  [rd EXCEPT !.slot  = hash_function(character, node.prime, node.num_slots),
                   !.phase = "probe"]

\* lookup_probe with "count = 1" for "count == 1": the count of an occupied
\* slot is set to 1 and the slot is taken for a leaf; what stands in a group
\* slot is no key record, and compares unequal
lookup_probe_assign(rd, tree, m, caller_values) ==
    LET sl == node_at(tree, rd.path).slot[rd.slot]
    IN  IF sl.count = 0
        THEN [rd |-> [rd EXCEPT !.phase = "done", !.found = 0], tree |-> tree]
        ELSE [rd   |-> IF /\ "binary" \in DOMAIN sl.next_node
                          /\ compare_binaries(rd.str, leaf_value(sl.next_node, caller_values), m) = 1
                       THEN [rd EXCEPT !.phase = "done", !.found = 1, !.payload = sl.payload]
                       ELSE [rd EXCEPT !.phase = "done", !.found = 0],
              tree |-> set_count(tree, rd.path, rd.slot, 1)]

\* the second half of a pass of lookup_binary: the slot is examined; the call
\* returns, or goes on at the child node.  The tree is read only.
lookup_probe(rd, tree, m, caller_values) ==
    LET sl == node_at(tree, rd.path).slot[rd.slot]
    IN  [rd   |-> IF sl.count = 0
                  THEN [rd EXCEPT !.phase = "done", !.found = 0]
                  ELSE IF sl.count = 1
                  THEN IF compare_binaries(rd.str, leaf_value(sl.next_node, caller_values), m) = 1
                       THEN [rd EXCEPT !.phase = "done", !.found = 1, !.payload = sl.payload]
                       ELSE [rd EXCEPT !.phase = "done", !.found = 0]
                  ELSE [rd EXCEPT !.phase = "hash", !.path = Append(@, rd.slot)],
         tree |-> tree]

InitReaders == InitKeys(MaxReaderKeys, MaxReaderKeyBytes)

\* the keys the callers look up: the keys of the input and one more
ReaderQueries == {mem[i].data : i \in DOMAIN mem} \cup {<<65>>}

\* a caller, with a Payload of its own, calls lookup_binary on the built tree
StartLookup(q) ==
    /\ pc = "built"
    /\ BagCardinality(readers) < MaxReaders
    /\ readers' = readers (+) SetToBag({[str |-> q, path |-> <<>>, phase |-> "hash",
                                         slot |-> 0, found |-> 0, payload |-> Unset]})
    /\ UNCHANGED <<pc, characters, mem, values, payloads, root, heap, res, fresh, touched,
                   again, eff, hashed, calls, tried>>

LookupHash(rd) ==
    /\ rd.phase = "hash"
    /\ readers' = (readers (-) SetToBag({rd})) (+) SetToBag({lookup_hash(rd, root)})
    /\ UNCHANGED <<pc, characters, mem, values, payloads, root, heap, res, fresh, touched,
                   again, eff, hashed, calls, tried>>

LookupProbe(rd) ==
    /\ rd.phase = "probe"
    /\ LET r == lookup_probe(rd, root, mem, values)
       IN  /\ readers' = (readers (-) SetToBag({rd})) (+) SetToBag({r.rd})
           /\ root' = r.tree
    /\ UNCHANGED <<pc, characters, mem, values, payloads, heap, res, fresh, touched, again, eff, hashed, calls, tried>>

\* the caller has its result
ReturnLookup(rd) ==
    /\ rd.phase = "done"
    /\ readers' = readers (-) SetToBag({rd})
    /\ UNCHANGED <<pc, characters, mem, values, payloads, root, heap, res, fresh, touched,
                   again, eff, hashed, calls, tried>>

NextReaders ==
    \/ CreateBinaryHash
    \/ \E q \in ReaderQueries : StartLookup(q)
    \/ \E rd \in BagToSet(readers) : LookupHash(rd)
    \/ \E rd \in BagToSet(readers) : LookupProbe(rd)
    \/ \E rd \in BagToSet(readers) : ReturnLookup(rd)

SpecReaders == InitReaders /\ [][NextReaders]_vars

(***************************************************************************)
(* Properties                                                              *)
(***************************************************************************)
\* the number of keys handed to the builder, and the bytes of key i
num_keys == Len(mem)

Key(i) == mem[i].data

PairwiseDistinct == \A i, j \in 1..num_keys : i # j => Key(i) # Key(j)

HasDuplicate == \E i, j \in 1..num_keys : i # j /\ Key(i) = Key(j)

\* what the last lookup returned
Returned == [found |-> res.found, payload |-> res.payload]

\* whether the lookup of str ends at a leaf, where compare_binaries decides
RECURSIVE ends_at_leaf(_, _)
ends_at_leaf(str, node) ==
    LET character == IF node.column >= Len(str) THEN 0 ELSE str[node.column + 1]
        slot      == hash_function(character, node.prime, node.num_slots)
    IN  IF node.slot[slot].count = 0 THEN FALSE
        ELSE IF node.slot[slot].count = 1 THEN TRUE
        ELSE ends_at_leaf(str, node.slot[slot].next_node)

\* C1: on a tree built from pairwise distinct keys, the lookup of a key of the
\* input returns found and the payload given with that key.
C1_EveryKeyFound ==
    (/\ pc = "built"
     /\ ~touched
     /\ PairwiseDistinct
     /\ res # NoLookup
     /\ \E i \in 1..num_keys : Key(i) = res.key)
    => /\ res.found = 1
       /\ \A i \in 1..num_keys : Key(i) = res.key => res.payload = payloads[i]

\* C2: on a built tree, the lookup of a byte string that is not one of the
\* keys returns not-found.
C2_NonKeyNotFound ==
    (/\ pc = "built"
     /\ ~touched
     /\ res # NoLookup
     /\ \A i \in 1..num_keys : Key(i) # res.key)
    => res.found = 0

\* a byte string that is no key was looked up, on a tree of two or more keys,
\* and was turned down by the comparison with a leaf's key
C2_Witness ==
    /\ pc = "built"
    /\ ~touched
    /\ num_keys >= 2
    /\ res # NoLookup
    /\ \A i \in 1..num_keys : Key(i) # res.key
    /\ ends_at_leaf(res.key, root)
    /\ res.found = 0

\* C3: for a non-empty input of pairwise distinct keys create_binary_hash
\* returns a root, never the duplicate signal.
C3_DistinctKeysBuild ==
    (/\ pc \in {"built", "null"}
     /\ ~touched
     /\ num_keys >= 1
     /\ PairwiseDistinct)
    => pc = "built"

\* C4: for an input in which two keys are byte-identical create_binary_hash
\* returns the duplicate signal.
C4_DuplicateKeysSignal ==
    (/\ pc \in {"built", "null"}
     /\ ~touched
     /\ HasDuplicate)
    => pc = "null"

\* C5: when create_binary_hash returns the duplicate signal, no allocation it
\* made is still live.
C5_DuplicateSignalFreesAll ==
    pc = "null" => heap.live = {}

\* C6: after a successful build and one free_tree of its root, no allocation
\* made during the build is still live and none was freed twice.
C6_FreeTreeFreesAll ==
    pc = "freed" => heap.live = {} /\ ~heap.double_free

\* what the lookup of q returned on the tree as it was built
Fresh(q) == lookup_binary(q, root, Unset, fresh.mem, fresh.values)

\* C7 as claimed: after the build, whatever the caller does to its key
\* buffers, a lookup returns what it returned on the tree as it was built.
C7_OverwriteKeepsResults ==
    (pc = "built" /\ res # NoLookup) => Returned = Fresh(res.key)

\* C7 as amended: a leaf owns a copy of the key's BinaryValue (pointer and
\* length), not of the key bytes; as long as the caller leaves the key bytes
\* alone, a lookup returns what it returned on the tree as it was built, also
\* after the caller has released its array of BinaryValue.
C7_ReleaseKeepsResults ==
    (pc = "built" /\ ~touched /\ res # NoLookup) => Returned = Fresh(res.key)

\* a key was found by a lookup made after the caller released its array
C7_Witness ==
    /\ pc = "built"
    /\ ~touched
    /\ res # NoLookup
    /\ res.released
    /\ res.found = 1

\* the last place the byte b occurs at in the array
LastOccurrence(b) == Max({i \in DOMAIN characters : characters[i] = b})

OccupiedSlots(node) == {s \in 0..node.num_slots : node.slot[s].count > 0}

\* C8: create_character_hash returns one node, without children, in which
\* each distinct byte of the array has one slot, of count 1, with the payload
\* of the byte's last occurrence; no other slot is occupied.
C8_LastOccurrencePayload ==
    pc = "built" =>
        /\ root # Null
        /\ \A s \in 0..root.num_slots : root.slot[s].next_node = Null
        /\ \A b \in Range(characters) :
             LET s == hash_function(b, root.prime, root.num_slots)
             IN  /\ root.slot[s].character = b
                 /\ root.slot[s].count = 1
                 /\ root.slot[s].payload = payloads[LastOccurrence(b)]
        /\ Cardinality(OccupiedSlots(root)) = Cardinality(Range(characters))

\* a node was built from an array in which a byte is repeated
C8_Witness ==
    /\ pc = "built"
    /\ Cardinality(Range(characters)) >= 2
    /\ \E i, j \in DOMAIN characters : i < j /\ characters[i] = characters[j]

\* C9: lookup_character(b) returns found exactly when b occurs in the array
\* the node was built from.
C9_FoundIffOccurs ==
    (pc = "built" /\ res # NoLookup) => (res.found = 1 <=> res.key \in Range(characters))

\* a byte that does not occur in the array was looked up, it hashes to an
\* occupied slot, and it was not found
C9_Witness ==
    /\ pc = "built"
    /\ res # NoLookup
    /\ res.key \notin Range(characters)
    /\ root.slot[hash_function(res.key, root.prime, root.num_slots)].count > 0
    /\ res.found = 0

\* C10: the node built from the bytes 0x00 .. 0xff has 256 slots, slot b holds
\* byte b (the identity hash), it has no children, and lookup_character(b)
\* finds b with the payload given with b.
C10_FullAlphabetIdentity ==
    (pc = "built" /\ characters = FullAlphabet) =>
        /\ root.num_slots = 255
        /\ \A b \in Byte : /\ root.slot[b].character = b
                           /\ root.slot[b].count = 1
                           /\ root.slot[b].next_node = Null
                           /\ hash_function(b, root.prime, root.num_slots) = b
        /\ res # NoLookup => res.found = 1 /\ res.payload = payloads[res.key + 1]

\* a byte was looked up in the node built from the bytes 0x00 .. 0xff
C10_Witness ==
    /\ pc = "built"
    /\ characters = FullAlphabet
    /\ res # NoLookup
    /\ res.key = 255
    /\ res.found = 1

\* the structure of a tree: column, prime and slot count of each node and the
\* state, byte, key and payload of each of its slots, without the addresses
RECURSIVE shape(_)
shape(node) ==
    IF node = Null THEN Null
    ELSE [column    |-> node.column,
          prime     |-> node.prime,
          num_slots |-> node.num_slots,
          slot      |-> [i \in 0..node.num_slots |->
                           LET sl == node.slot[i]
                           IN  [count     |-> sl.count,
                                character |-> sl.character,
                                payload   |-> IF sl.count = 1 THEN sl.payload ELSE 0,
                                next      |-> IF sl.count = 0 THEN Null
                                              ELSE IF sl.count = 1
                                              THEN [key |-> mem[sl.next_node.binary].data]
                                              ELSE shape(sl.next_node)]]]

\* C11: two runs of create_binary_hash on the same keys and payloads in the
\* same order come to the same result, and two trees they return have the
\* same structure.
C11_SecondBuildSameTree ==
    (pc = "rebuilt" /\ again.pc \in {"built", "null"}) =>
        shape(again.root) = shape(root)

\* the number of nodes on the longest path from the node to a leaf
RECURSIVE depth(_)
depth(node) ==
    1 + Max({0} \cup {depth(node.slot[i].next_node) :
                        i \in {k \in 0..node.num_slots : node.slot[k].count > 1}})

\* the length of the longest key of the input
max_key_length == Max({0} \cup {Len(Key(i)) : i \in 1..num_keys})

\* C12: the depth of a built tree is at most the length of the longest key
\* plus one.
C12_DepthBound ==
    pc \in {"built", "rebuilt"} =>
        /\ root # Null => depth(root) <= max_key_length + 1
        /\ (pc = "rebuilt" /\ again.pc = "built") => depth(again.root) <= max_key_length + 1

\* a tree with a child node was built that is as deep as the bound allows
C12_Witness ==
    /\ pc = "built"
    /\ depth(root) >= 2
    /\ depth(root) = max_key_length + 1

\* C13: a node made by find_best_hash has between 1 and 256 slots, and at
\* least as many slots as its input has distinct bytes.
C13_SlotCountBound ==
    pc = "built" =>
        /\ root.num_slots + 1 \in 1..256
        /\ DOMAIN root.slot = 0..root.num_slots
        /\ root.num_slots + 1 >= Cardinality(Range(characters))

\* a node was built from an array of 255 or 256 distinct bytes, where the
\* 8-bit slot counter starts at 255 or wraps to 0
C13_Witness ==
    /\ pc = "built"
    /\ Cardinality(Range(characters)) >= 255
    /\ root.num_slots = 255

\* whether the node is one of a tree of create_binary_hash
is_binary(node) == "column" \in DOMAIN node

\* Each byte of the column hashes to a slot that records that byte, with the
\* count counted(b), and no other slot is occupied.
perfect(node, column_chars, counted(_)) ==
    /\ \A b \in Range(column_chars) :
         LET s == hash_function(b, node.prime, node.num_slots)
         IN  /\ s \in 0..node.num_slots
             /\ node.slot[s].count > 0
             /\ node.slot[s].character = b
             /\ node.slot[s].count = counted(b)
    /\ Cardinality(OccupiedSlots(node)) = Cardinality(Range(column_chars))

\* the bytes at the node's column of the values the node was built from
column_of(node, values_in, m) ==
    [i \in 1..Len(values_in) |-> padded_byte(m, values_in[i], node.column)]

\* perfect, with the multiplicities as counts, for the node built from
\* values_in and for the nodes below it, each with the values gathered for it
RECURSIVE perfect_tree(_, _, _)
perfect_tree(node, values_in, m) ==
    LET column_chars == column_of(node, values_in, m)
        multiplicity(b) == char_counts(column_chars, b)
    IN  /\ perfect(node, column_chars, multiplicity)
        /\ \A i \in 0..node.num_slots :
             node.slot[i].count > 1 =>
                LET idx == gather(values_in, m, node.column, node.slot[i].character, 1)
                IN  perfect_tree(node.slot[i].next_node,
                                 [k \in 1..Len(idx) |-> values_in[idx[k]]], m)

\* C14 as claimed: in every node of a built tree, of either builder, each byte
\* of the node's column has a slot of its own that records it, with the
\* byte's multiplicity in the column as count.
C14_CountIsMultiplicity ==
    (pc = "built" /\ root # Null) =>
        IF is_binary(root)
        THEN perfect_tree(root, values, mem)
        ELSE LET multiplicity(b) == char_counts(characters, b)
             IN  perfect(root, characters, multiplicity)

\* C14 as amended: in every node of a built tree, of either builder, each
\* byte of the node's column has a slot of its own that records it; the count
\* is the byte's multiplicity in the column in a tree of create_binary_hash,
\* and 1 in the node of create_character_hash.
C14_OneByteEachSlot ==
    (pc = "built" /\ root # Null) =>
        IF is_binary(root)
        THEN perfect_tree(root, values, mem)
        ELSE LET one(b) == 1
             IN  perfect(root, characters, one)

\* a tree was built in which a byte is repeated in the column of the root,
\* and the node built for that byte tells two keys apart
C14_Witness ==
    /\ pc = "built"
    /\ root # Null
    /\ is_binary(root)
    /\ \E i \in 0..root.num_slots :
         /\ root.slot[i].count > 1
         /\ Cardinality(OccupiedSlots(root.slot[i].next_node)) >= 2

\* C15: however the running calls of lookup_binary interleave, each returns
\* what lookup_binary returns when it runs alone on the tree as built, and
\* the tree stays as it was built.
C15_ReadersAgreeAndReadOnly ==
    pc = "built" =>
        /\ root = fresh.root
        /\ \A rd \in BagToSet(readers) :
             rd.phase = "done" =>
                [found |-> rd.found, payload |-> rd.payload]
                    = lookup_binary(rd.str, fresh.root, Unset, mem, values)

\* a call has found its key in a child node while another call stands
\* between computing its slot and examining it
C15_Witness ==
    /\ pc = "built"
    /\ \E rd \in BagToSet(readers) : rd.phase = "done" /\ rd.found = 1 /\ rd.path # <<>>
    /\ \E rd \in BagToSet(readers) : rd.phase = "probe"

\* C16: for an input of no keys create_binary_hash returns a root, not the
\* NULL that signals a duplicate.
C16_EmptyInputBuilds ==
    (pc \in {"built", "null"} /\ num_keys = 0) => (pc = "built" /\ root # Null)

\* the slots of a tree, all nodes together, and those of them that are
\* occupied by a leaf or a branch
RECURSIVE slots_in(_)
slots_in(node) ==
    (node.num_slots + 1)
    + sum([i \in {k \in 0..node.num_slots : node.slot[k].count > 1} |->
              slots_in(node.slot[i].next_node)])

RECURSIVE occupied_in(_)
occupied_in(node) ==
    Cardinality(OccupiedSlots(node))
    + sum([i \in {k \in 0..node.num_slots : node.slot[k].count > 1} |->
              occupied_in(node.slot[i].next_node)])

\* C17: for a built tree hash_table_efficiency reports as slots_used the
\* number of occupied slots of the tree, and as slot_efficiency the occupied
\* slots as a percentage, rounded down, of all slots of the tree.
C17_EfficiencyCountsOccupied ==
    (pc = "built" /\ eff # NoRun) =>
        /\ eff.slots_used = occupied_in(root)
        /\ eff.slot_efficiency = (occupied_in(root) * 100) \div slots_in(root)

\* the number of nodes lookup_binary hashes a byte at when it looks up str
RECURSIVE hashes(_, _)
hashes(str, node) ==
    LET character == IF node.column >= Len(str) THEN 0 ELSE str[node.column + 1]
        slot      == hash_function(character, node.prime, node.num_slots)
    IN  IF node.slot[slot].count > 1 THEN 1 + hashes(str, node.slot[slot].next_node)
        ELSE 1

\* C18: the max_comparisons hash_table_efficiency reports is the number of
\* nodes on the longest path from the root to a leaf, and the largest number
\* of byte hashes a lookup makes on the tree.
C18_MaxComparisonsIsDepth ==
    (pc = "built" /\ eff # NoRun) =>
        /\ eff.max_comparisons = depth(root)
        /\ eff.max_comparisons = Max({hashes(q, root) : q \in Keys})

\* the efficiency was asked of a tree in which one key is found at the root
\* and two keys are found in a child node
C18_Witness ==
    /\ pc = "built"
    /\ eff # NoRun
    /\ eff.max_comparisons >= 2
    /\ \E q \in Keys : /\ hashes(q, root) = 1
                        /\ lookup_binary(q, root, Unset, mem, values).found = 1
    /\ \E q1, q2 \in Keys : /\ q1 # q2
                             /\ hashes(q1, root) = 2
                             /\ hashes(q2, root) = 2
                             /\ lookup_binary(q1, root, Unset, mem, values).found = 1
                             /\ lookup_binary(q2, root, Unset, mem, values).found = 1


(***************************************************************************)
(* The range and the closed form of the byte hash                          *)
(***************************************************************************)
\* C19: for every byte, every prime of the table and every zero-based slot
\* count 0..255, hash_function returns a slot index in 0..num_slots; it is
\* the byte itself when num_slots is 255 and
\* (((a - 1) XOR b) * a) mod (num_slots + 1) otherwise, and the product
\* before the modulus fits 16 unsigned bits
C19_HashInRange ==
    ("slot" \in DOMAIN hashed) =>
        /\ hashed.slot \in 0..hashed.num_slots
        /\ hashed.num_slots = 255 => hashed.slot = hashed.character
        /\ hashed.num_slots # 255 =>
               /\ hashed.slot = (BitXor(hashed.a - 1, hashed.character) * hashed.a)
                                    % (hashed.num_slots + 1)
               /\ BitXor(hashed.a - 1, hashed.character) * hashed.a <= 65535

\* the largest product there is, 255 * 251, was reduced into a 255-slot table
C19_Witness ==
    /\ "slot" \in DOMAIN hashed
    /\ hashed.a = 251
    /\ hashed.num_slots = 254
    /\ BitXor(hashed.a - 1, hashed.character) = 255
    /\ hashed.slot = 0


(***************************************************************************)
(* Where the scan of the slot counts starts                                *)
(***************************************************************************)
\* whether the prime a puts no two distinct bytes of the array into one slot
\* of a table of num_slots + 1 slots
no_false_positive(column_chars, a, num_slots) ==
    LET bytes == Range(column_chars)
    IN  /\ Cardinality(bytes) <= num_slots + 1
        /\ Cardinality({hash_function(b, a, num_slots) : b \in bytes}) = Cardinality(bytes)

\* C20: the scan of the slot counts starts at a table of exactly as many
\* slots as the array has distinct bytes: when some prime of the table
\* resolves the bytes in a table of that size, the node returned has exactly
\* that many slots (one distinct byte gives a node of one slot).
C20_ScanStartsAtUniqueBytes ==
    LET unique_bytes == Cardinality(Range(characters))
    IN  (/\ pc = "built"
         /\ unique_bytes >= 1
         /\ \E i \in 1..num_primes :
                no_false_positive(characters, primes[i], unique_bytes - 1))
        => root.num_slots + 1 = unique_bytes


(***************************************************************************)
(* The 256-slot identity table as the last resort                          *)
(***************************************************************************)
\* C21: the node of 256 slots with the natural hash is returned only when no
\* prime of the table resolves the bytes of the array in a table of fewer
\* than 256 slots; arrays of exactly 255 distinct bytes are among the cases.
C21_IdentityOnlyAsLastResort ==
    (pc = "built" /\ res = NoLookup /\ root.num_slots = 255) =>
        ~ \E num_slots \in 0..254, i \in 1..num_primes :
              no_false_positive(characters, primes[i], num_slots)


(***************************************************************************)
(* The column each call of the builder chooses                             *)
(***************************************************************************)
\* the byte image of column c of the values of a call, short keys padded with 0x00
image(cl, c) == [i \in 1..Len(cl.values) |-> padded_byte(mem, cl.values[i], c)]

\* the largest number of occurrences of one byte in column c
max_multiplicity(cl, c) ==
    Max({char_counts(image(cl, c), b) : b \in Range(image(cl, c))})

\* the first column in which no value of the call has a byte
last_column(cl) == Max({cl.values[i].length : i \in 1..Len(cl.values)})

\* the columns with the smallest max_multiplicity among the columns 0..last_column
tightest(cl) ==
    {c \in 0..last_column(cl) :
        \A d \in 0..last_column(cl) : max_multiplicity(cl, c) <= max_multiplicity(cl, d)}

Min(S) == CHOOSE x \in S : \A y \in S : x <= y

\* the columns of the nodes of a tree, a node before its children, the
\* children in slot order
RECURSIVE columns(_)
RECURSIVE columns_from(_, _)
columns_from(node, i) ==
    IF i > node.num_slots THEN <<>>
    ELSE IF node.slot[i].count > 1
    THEN columns(node.slot[i].next_node) \o columns_from(node, i + 1)
    ELSE columns_from(node, i + 1)

columns(node) == <<node.column>> \o columns_from(node, 0)

padded_matches(cl, b) ==
    LET hits == {i \in 1..Len(cl.values) : image(cl, cl.column)[i] = b}
    IN  [k \in 1..Cardinality(hits) |->
            CHOOSE i \in hits : Cardinality({j \in hits : j < i}) = k - 1]

\* C23: the values gathered for a group slot are exactly the values of the
\* call whose padded byte at the node's column is the slot's byte, and they
\* are as many as the slot counts, so that the group arrays are neither
\* overrun nor under-filled; every value of the call hashes to one slot, the
\* slot that records its padded byte.
C23_GatherIsPadded ==
    /\ pc # "undefined"
    /\ \A k \in DOMAIN calls :
         LET cl == calls[k]
         IN  cl.table # Null =>
               /\ \A g \in DOMAIN cl.groups :
                    LET sl == cl.table.slot[cl.groups[g].slot]
                    IN  /\ cl.groups[g].idx = padded_matches(cl, sl.character)
                        /\ Len(cl.groups[g].idx) = sl.count
               /\ \A i \in 1..Len(cl.values) :
                    LET b == image(cl, cl.column)[i]
                        s == hash_function(b, cl.table.prime, cl.table.num_slots)
                    IN  /\ s \in 0..cl.table.num_slots
                        /\ cl.table.slot[s].count > 0
                        /\ cl.table.slot[s].character = b


(***************************************************************************)
(* What the duplicate path releases                                        *)
(***************************************************************************)
\* C24: when the build of a group returns the duplicate signal, the node
\* releases what it has populated in the slots before it, the leaf records
\* and the child subtrees, before it frees itself: once the builder has
\* returned the signal no node and no leaf record is live.
C24_AbortReleasesSiblings ==
    pc = "null" => \A al \in heap.live : al.kind \notin {"node", "binary"}


(***************************************************************************)
(* The columns the survey can choose                                       *)
(***************************************************************************)
\* C25 as claimed: the column a call chooses is one in which at least one of
\* its values has a byte; the column last_column, in which none has, is no
\* candidate.
C25_ChosenColumnHasRealByte ==
    \A k \in DOMAIN calls :
        \E i \in 1..Len(calls[k].values) : calls[k].values[i].length > calls[k].column

\* C25 as amended: the survey analyses the columns 0..last_column, the column
\* last_column included, but chooses last_column only when it is column 0,
\* that is, when every value of the call is empty; every other column it
\* chooses has a value with a byte in it.
C25_ChosenColumnRealOrAllEmpty ==
    \A k \in DOMAIN calls :
        LET cl == calls[k]
        IN  /\ cl.column \in 0..last_column(cl)
            /\ \/ \E i \in 1..Len(cl.values) : cl.values[i].length > cl.column
               \/ /\ cl.column = 0
                  /\ \A i \in 1..Len(cl.values) : cl.values[i].length = 0

\* a node was built for a single empty key, and in the same build a call
\* with a key of two bytes chose a column with a byte in it
C25_Witness ==
    /\ pc = "built"
    /\ \E k \in DOMAIN calls :
         /\ Len(calls[k].values) = 1
         /\ calls[k].values[1].length = 0
         /\ calls[k].table # Null
    /\ \E k \in DOMAIN calls :
         /\ last_column(calls[k]) = 2
         /\ \E i \in 1..Len(calls[k].values) : calls[k].values[i].length > calls[k].column


(***************************************************************************)
(* The columns along a path of the tree                                    *)
(***************************************************************************)
\* whether no column occurs twice from the node down to any leaf, seen being
\* the columns of the nodes above it
RECURSIVE columns_differ(_, _)
columns_differ(node, seen) ==
    /\ node.column \notin seen
    /\ \A i \in 0..node.num_slots :
         node.slot[i].count > 1 =>
            columns_differ(node.slot[i].next_node, seen \cup {node.column})

\* C26: in a tree that was built no column occurs twice on a path from the
\* root to a leaf; in particular a child never discriminates on the column of
\* its parent.
C26_NoColumnTwiceOnPath ==
    pc = "built" => columns_differ(root, {})


(***************************************************************************)
(* Termination of the build                                                *)
(***************************************************************************)
\* C27: the build terminates: every table find_best_hash returns has a prime
\* of the prime table and 1..256 slots, and every recursive call of
\* create_binary_hash is made on fewer values than the call that makes it
\* was given.
C27_CallsShrink ==
    \A k \in DOMAIN calls :
        LET cl == calls[k]
        IN  /\ cl.table # Null =>
                 /\ cl.table.prime \in Range(primes)
                 /\ cl.table.num_slots \in 0..255
            /\ \A g \in DOMAIN cl.groups : Len(cl.groups[g].idx) < Len(cl.values)


(***************************************************************************)
(* The selector as a first-fit search                                      *)
(***************************************************************************)
\* whether the candidate (a, num_slots) comes before the candidate the node
\* records in the scan: slot counts ascending, primes in table order
before_returned(a, num_slots, node) ==
    \/ num_slots < node.num_slots
    \/ num_slots = node.num_slots /\ a < node.prime

\* C28: find_best_hash returns the first candidate of its scan that has no
\* false positive: the candidate it returns has none, its slot table is the
\* one returned, and no candidate before it is free of false positives; every
\* candidate without a false positive scores max_multiplicity, so that none
\* scores better than an earlier one.
C28_FirstFit ==
    (pc = "selected" /\ tried # NoRun) =>
        LET d        == calculate_character_distribution(characters)
            returned == tried.a = root.prime /\ tried.num_slots = root.num_slots
        IN  /\ root.num_slots >= first_num_slots(d.unique_chars)
            /\ root.prime \in Range(primes)
            /\ returned =>
                 /\ ~tried.false_positive
                 /\ \A s \in 0..root.num_slots :
                      /\ root.slot[s].count = tried.slot_table[s].count
                      /\ root.slot[s].count > 0 =>
                           root.slot[s].character = tried.slot_table[s].character
            /\ ~tried.false_positive =>
                 /\ tried.differential_score = d.max_occurrence
                 /\ ~before_returned(tried.a, tried.num_slots, root)
                 /\ no_false_positive(characters, tried.a, tried.num_slots)
            /\ tried.false_positive => ~no_false_positive(characters, tried.a, tried.num_slots)

\* a candidate later in the scan than the one returned has no false positive
\* either, on an array in which a byte occurs twice
C28_Witness ==
    /\ pc = "selected"
    /\ tried # NoRun
    /\ ~tried.false_positive
    /\ \/ root.num_slots < tried.num_slots
       \/ root.num_slots = tried.num_slots /\ root.prime < tried.a
    /\ tried.differential_score = 2
    /\ Cardinality(Range(characters)) = 2


(***************************************************************************)
(* The search for the key of a singleton slot                              *)
(***************************************************************************)
\* C29: in every call of the builder every slot with count 1 records the
\* padded byte, at the node's column, of one of the values of the call, so
\* the build never exits with "PANIC: Binary not found".
C29_SingletonHasItsKey ==
    /\ pc # "exited"
    /\ \A k \in DOMAIN calls :
         LET cl == calls[k]
         IN  cl.table # Null =>
               \A s \in 0..cl.table.num_slots :
                  cl.table.slot[s].count = 1 =>
                     \E i \in 1..Len(cl.values) :
                        image(cl, cl.column)[i] = cl.table.slot[s].character

\* a tree was built in which the key of a singleton slot is shorter than the
\* node's column + 1 and the byte behind its buffer is not 0x00
C29_Witness ==
    /\ pc = "built"
    /\ \E k \in DOMAIN calls :
         LET cl == calls[k]
         IN  \E s \in 0..cl.table.num_slots, i \in 1..Len(cl.values) :
                /\ cl.table.slot[s].count = 1
                /\ cl.table.slot[s].character = 0
                /\ cl.values[i].length <= cl.column
                /\ mem[cl.values[i].binary].tail # 0


(***************************************************************************)
(* The order of the input                                                  *)
(***************************************************************************)
\* C30: for pairwise distinct keys the tree does not depend on the order of
\* the (key, payload) pairs: when the builder returns a tree for the pairs in
\* one order it returns one for them in every order, with the same column,
\* prime and slot count in every node, the same counts and bytes in the slots
\* and the same key and payload in every leaf.
C30_OrderIndependent ==
    (pc = "permuted" /\ PairwiseDistinct /\ (root # Null \/ again.pc = "built")) =>
        /\ root # Null
        /\ again.pc = "built"
        /\ shape(again.root) = shape(root)

\* three distinct keys were built in reversed order, into a tree with a child node
C30_Witness ==
    /\ pc = "permuted"
    /\ PairwiseDistinct
    /\ num_keys = 3
    /\ again.order = <<3, 2, 1>>
    /\ again.pc = "built"
    /\ depth(again.root) >= 2

============================================================================
